---- MODULE Spec2Model ----
(***************************************************************************)
(* Multi-timeframe signal engine of app.py: indicators, swing detection,   *)
(* hidden divergence, the 3-confirm scorer, the higher-timeframe filter    *)
(* and the signal combiner of mtf_signal.                                  *)
(*                                                                         *)
(* A data frame is a function from column names to equally long sequences  *)
(* (DOMAIN df = df.columns, the row count is the length of Close).         *)
(* Prices are integer multiples of Scale, a power of two, and the EMA      *)
(* spans used are of the form 2^k - 1, so the smoothing factor 2/(span+1)  *)
(* is a power of 1/2 and every value of the recurrences is an integer of   *)
(* the model (and an exactly representable float of the program).          *)
(* Python's None is <<>>, a present value v is <<v>>.                      *)
(***************************************************************************)
EXTENDS Integers, Sequences, FiniteSets, TLC

VARIABLES pc, df_raw, df15, df30, params, htf, mmc, hidden_det, result, call, ret

vars == <<pc, df_raw, df15, df30, params, htf, mmc, hidden_det, result, call, ret>>

\* ------------------------------------------------------------------ bounds
\* Longest raw series given to mtf_signal.
MaxBars == 8
\* Longest high / low series given to find_swings on its own.
MaxSwingLen == 5
\* Largest left / right window given to find_swings and hidden_divergence.
MaxWin == 2
\* Longest frame given to hidden_divergence, htf_filter_30m and add_indicators
\* on their own, and to check_3_confirm on its own.
MaxLen == 3
MaxMmcLen == 6

\* One price unit. 4^MaxBars keeps every EMA of a series of up to MaxBars bars
\* integral for the spans below (each step divides by at most 4, twice).
Scale == 4 ^ MaxBars
Prices == {0, Scale, 2 * Scale}

None == <<>>
Some(v) == <<v>>

\* ------------------------------------------------------- program constants
\* Swing window of check_3_confirm and of hidden_divergence's defaults.
SwingLeft == 2
SwingRight == 2
\* min_bars_htf, mtf_signal's default.
MinBarsHtf == 3
\* fibo_tol, the default.
FiboTol == 0
FiboSet == {3, 5, 8, 13, 21}
\* The minimum number of bars of either timeframe in mtf_signal.
MinBarsSignal == 2
\* Bucket widths of the two timeframes, in base bars ('15T' and '30T').
TfExec == 1
TfFilter == 2
\* ema_spans and the macd_params a caller may pass, as spans 2^k - 1.
EmaSpans == <<3, 7>>
MacdParams == <<1, 3, 3>>
MacdParamSet == {MacdParams, <<3, 1, 3>>}
EmaSpanSet == {EmaSpans, <<1, 3>>}

\* ---------------------------------------------------------------- helpers
Max(S) == CHOOSE m \in S : \A x \in S : x <= m
Min(S) == CHOOSE m \in S : \A x \in S : m <= x
Range(s) == {s[i] : i \in DOMAIN s}
\* Python's sum() over booleans.
B2I(b) == IF b THEN 1 ELSE 0

RECURSIVE SortedSeq(_)
SortedSeq(S) == IF S = {} THEN <<>>
                ELSE LET m == Min(S) IN <<m>> \o SortedSeq(S \ {m})

RECURSIVE SeqsUpTo(_, _)
SeqsUpTo(S, n) == IF n = 0 THEN {<<>>}
                  ELSE LET shorter == SeqsUpTo(S, n - 1)
                       IN shorter \cup {Append(s, x) : s \in {t \in shorter : Len(t) = n - 1}, x \in S}

len(df) == Len(df.Close)

\* ------------------------------------------------------------- indicators
\* series.ewm(span=span, adjust=False).mean()
ema(series, span) ==
    LET e[t \in 1..Len(series)] ==
            IF t = 1 THEN series[1]
            ELSE (2 * series[t] + (span - 1) * e[t - 1]) \div (span + 1)
    IN [t \in 1..Len(series) |-> e[t]]

macd(close, fast, slow, signal) ==
    LET ema_fast == ema(close, fast)
        ema_slow == ema(close, slow)
        dif == [t \in 1..Len(close) |-> ema_fast[t] - ema_slow[t]]
        dea == ema(dif, signal)
    IN [DIF |-> dif, DEA |-> dea,
        MACD_HIST |-> [t \in 1..Len(close) |-> dif[t] - dea[t]]]

\* Mutant of need_macd: MACD is computed only when none of its columns is there.
need_macd_none(columns) == {"DIF", "DEA", "MACD_HIST"} \cap columns = {}

need_macd(columns) == ~({"DIF", "DEA", "MACD_HIST"} \subseteq columns)

\* inplace=True, as every caller has it: the result is the frame itself.
add_indicators(df, ema_spans, macd_params) ==
    LET d1 == IF "EMA50" \in DOMAIN df THEN df
              ELSE df @@ [EMA50 |-> ema(df.Close, ema_spans[1])]
        d2 == IF "EMA200" \in DOMAIN d1 THEN d1
              ELSE d1 @@ [EMA200 |-> ema(d1.Close, ema_spans[2])]
    IN IF need_macd(DOMAIN d2)
       THEN macd(d2.Close, macd_params[1], macd_params[2], macd_params[3]) @@ d2
       ELSE d2

\* ------------------------------------------------------------------ swings
\* Indices are Python's (0-based); row i is element i + 1 of a column.
\* col.iloc[i-left:i+right+1], for left <= i < n - right.
window(col, i, left, right) == {col[k + 1] : k \in (i - left)..(i + right)}

\* Mutant of is_swing_high: a pivot must exceed every other bar of its window.
is_swing_high_strict(high, i, left, right) ==
    \A k \in (i - left)..(i + right) : k # i => high[i + 1] > high[k + 1]

is_swing_high(high, i, left, right) ==
    high[i + 1] = Max(window(high, i, left, right))
is_swing_low(low, i, left, right) ==
    low[i + 1] = Min(window(low, i, left, right))

\* The loop over range(left, n - right) appends in ascending order of i.
find_swings(high, low, left, right) ==
    IF Len(high) - right <= left
    THEN [swing_high |-> <<>>, swing_low |-> <<>>]
    ELSE LET idx == left..(Len(high) - right - 1)
         IN [swing_high |->
                SortedSeq({i \in idx : is_swing_high(high, i, left, right)}),
             swing_low |->
                SortedSeq({i \in idx : is_swing_low(low, i, left, right)})]

\* Mutant of bars_since_last_pivot: the first pivot, not the last.
bars_since_first_pivot(idx, swing_high, swing_low) ==
    LET pivots == SelectSeq(swing_high \o swing_low, LAMBDA p : p <= idx)
    IN IF pivots = <<>> THEN None
       ELSE Some(idx - Min(Range(pivots)))

bars_since_last_pivot(idx, swing_high, swing_low) ==
    LET pivots == SelectSeq(swing_high \o swing_low, LAMBDA p : p <= idx)
    IN IF pivots = <<>> THEN None
       ELSE Some(idx - Max(Range(pivots)))

fibo_time_pass(bars_since_pivot, fibo_set, tolerance) ==
    IF bars_since_pivot = None THEN FALSE
    ELSE \E f \in fibo_set :
            LET d == bars_since_pivot[1] - f
            IN (IF d < 0 THEN -d ELSE d) <= tolerance

\* ------------------------------------------------------- hidden divergence
\* Mutant of bull_divergence: the regular divergence, oscillator higher too.
bull_divergence_regular(low, osc, i1, i2) ==
    low[i2 + 1] > low[i1 + 1] /\ osc[i2 + 1] > osc[i1 + 1]

\* price_hl and osc_ll
bull_divergence(low, osc, i1, i2) ==
    low[i2 + 1] > low[i1 + 1] /\ osc[i2 + 1] < osc[i1 + 1]
\* price_lh and osc_hh
bear_divergence(high, osc, j1, j2) ==
    high[j2 + 1] < high[j1 + 1] /\ osc[j2 + 1] > osc[j1 + 1]

hidden_divergence(df, use_hist, left, right) ==
    IF len(df) < left + right + 1
    THEN [hidden_bull |-> FALSE, hidden_bear |-> FALSE,
          last_swing_low_idx |-> None, last_swing_high_idx |-> None]
    ELSE
    LET osc == IF use_hist THEN df.MACD_HIST ELSE df.DIF
        sw == find_swings(df.High, df.Low, left, right)
        swing_h == sw.swing_high
        swing_l == sw.swing_low
        hidden_bull ==
            IF Len(swing_l) >= 2
            THEN bull_divergence(df.Low, osc, swing_l[Len(swing_l) - 1], swing_l[Len(swing_l)])
            ELSE FALSE
        hidden_bear ==
            IF Len(swing_h) >= 2
            THEN bear_divergence(df.High, osc, swing_h[Len(swing_h) - 1], swing_h[Len(swing_h)])
            ELSE FALSE
    IN [hidden_bull |-> hidden_bull, hidden_bear |-> hidden_bear,
        last_swing_low_idx |->
            IF swing_l # <<>> THEN Some(swing_l[Len(swing_l)]) ELSE None,
        last_swing_high_idx |->
            IF swing_h # <<>> THEN Some(swing_h[Len(swing_h)]) ELSE None]

\* ------------------------------------------------------- MMC (3 confirm)
\* Rows t and t1 are the last and the one before it (1-based here).
ms_buy(df, ema_source, t, t1) ==
    df.Close[t] > df[ema_source][t] /\ df.Close[t1] <= df[ema_source][t1]
\* Mutant of ms_sell: the buy side's comparison at the last bar.
ms_sell_up(df, ema_source, t, t1) ==
    df.Close[t] > df[ema_source][t] /\ df.Close[t1] >= df[ema_source][t1]
ms_sell(df, ema_source, t, t1) ==
    df.Close[t] < df[ema_source][t] /\ df.Close[t1] >= df[ema_source][t1]
\* Mutant of macd_buy: strict at the previous bar too, an exact touch is lost.
macd_buy_strict(df, t, t1) == df.DIF[t] > df.DEA[t] /\ df.DIF[t1] < df.DEA[t1]
macd_buy(df, t, t1) == df.DIF[t] > df.DEA[t] /\ df.DIF[t1] <= df.DEA[t1]
macd_sell(df, t, t1) == df.DIF[t] < df.DEA[t] /\ df.DIF[t1] >= df.DEA[t1]

\* [confirms_buy, confirms_sell] from the three confirmations of each side.
confirms(msb, mss, mcb, mcs, fibo_ok) ==
    [buy |-> B2I(msb) + B2I(mcb) + B2I(fibo_ok),
     sell |-> B2I(mss) + B2I(mcs) + B2I(fibo_ok)]

\* The frame is augmented in place: df is the frame after the call.
check_3_confirm(df0, fibo_set, fibo_tol, ema_source) ==
    IF len(df0) < 2
    THEN [confirms_buy |-> 0, confirms_sell |-> 0, details |-> <<>>, df |-> df0]
    ELSE
    LET df == IF ema_source \notin DOMAIN df0 \/ ~({"DIF", "DEA"} \subseteq DOMAIN df0)
              THEN add_indicators(df0, EmaSpans, MacdParams)
              ELSE df0
        t == len(df)
        t1 == len(df) - 1
        msb == ms_buy(df, ema_source, t, t1)
        mss == ms_sell(df, ema_source, t, t1)
        mcb == macd_buy(df, t, t1)
        mcs == macd_sell(df, t, t1)
        sw == find_swings(df.High, df.Low, SwingLeft, SwingRight)
        bslp == bars_since_last_pivot(t - 1, sw.swing_high, sw.swing_low)
        fibo_ok == fibo_time_pass(bslp, fibo_set, fibo_tol)
        c == confirms(msb, mss, mcb, mcs, fibo_ok)
    IN [confirms_buy |-> c.buy, confirms_sell |-> c.sell,
        details |-> [ms_buy |-> msb, ms_sell |-> mss,
                     macd_buy |-> mcb, macd_sell |-> mcs,
                     fibo_ok |-> fibo_ok, bars_since_last_pivot |-> bslp],
        df |-> df]

\* --------------------------------------------------------------- HTF filter
\* Mutant of htf_down_of: the line copied from htf_up with only the momentum
\* condition renamed.
htf_down_pasted(d) ==
    d.trend_up_last_n_above_ema200 /\ d.ema_align_up /\ d.momentum_down

\* htf_up and htf_down from the six conditions.
htf_up_of(d) == d.trend_up_last_n_above_ema200 /\ d.ema_align_up /\ d.momentum_up
htf_down_of(d) == d.trend_down_last_n_below_ema200 /\ d.ema_align_down /\ d.momentum_down

\* The frame is augmented in place: df is the frame after the call.
htf_filter_30m(df0, ema_spans, macd_params, min_bars_above_below) ==
    LET df == add_indicators(df0, ema_spans, macd_params)
        n == min_bars_above_below
        L == len(df)
        last_n == IF n = 0 THEN 1..L ELSE (L - n + 1)..L
        details ==
            [trend_up_last_n_above_ema200 |-> \A i \in last_n : df.Close[i] > df.EMA200[i],
             ema_align_up |-> df.EMA50[L] > df.EMA200[L],
             momentum_up |-> df.DIF[L] > df.DEA[L] \/ df.MACD_HIST[L] > 0,
             trend_down_last_n_below_ema200 |-> \A i \in last_n : df.Close[i] < df.EMA200[i],
             ema_align_down |-> df.EMA50[L] < df.EMA200[L],
             momentum_down |-> df.DIF[L] < df.DEA[L] \/ df.MACD_HIST[L] < 0]
    IN IF L < n
       THEN [htf_up |-> FALSE, htf_down |-> FALSE, details |-> <<>>, df |-> df]
       ELSE [htf_up |-> htf_up_of(details), htf_down |-> htf_down_of(details),
             details |-> details, df |-> df]

\* ---------------------------------------------------------------- resample
\* df.resample(rule).agg(first, max, min, last, sum).dropna(subset=['Close']):
\* one row per bucket of `rule` base bars that holds at least one bar.
resample_ohlc(df, rule) ==
    LET rows(b) == {i \in 1..len(df) : df.ts[i] \div rule = b}
        bs == SortedSeq({df.ts[i] \div rule : i \in 1..len(df)})
        K == 1..Len(bs)
    IN [ts |-> [k \in K |-> bs[k] * rule],
        Open |-> [k \in K |-> df.Open[Min(rows(bs[k]))]],
        High |-> [k \in K |-> Max({df.High[i] : i \in rows(bs[k])})],
        Low |-> [k \in K |-> Min({df.Low[i] : i \in rows(bs[k])})],
        Close |-> [k \in K |-> df.Close[Max(rows(bs[k]))]],
        Volume |-> [k \in K |-> Cardinality(rows(bs[k]))]]

\* ------------------------------------------------------ MTF signal (core)
\* Mutant of buy_rule: the threshold one too low.
buy_rule_low(htf_up, c_buy) == htf_up /\ c_buy >= 1

buy_rule(htf_up, c_buy) == htf_up /\ c_buy >= 2
sell_rule(htf_down, c_sell) == htf_down /\ c_sell >= 2

\* Mutant of hold_reasons: "or" for "and" in the threshold reason.
hold_reasons_or(htf_up, htf_down, c_buy, c_sell) ==
    (IF ~htf_up /\ ~htf_down THEN <<"30m filter not aligned">> ELSE <<>>)
    \o (IF c_buy < 2 \/ c_sell < 2 THEN <<"15m MMC < 2/3">> ELSE <<>>)

hold_reasons(htf_up, htf_down, c_buy, c_sell) ==
    (IF ~htf_up /\ ~htf_down THEN <<"30m filter not aligned">> ELSE <<>>)
    \o (IF c_buy < 2 /\ c_sell < 2 THEN <<"15m MMC < 2/3">> ELSE <<>>)

\* The action and the reasons of mtf_signal, from the three evaluations.
decide(htf_up, htf_down, c_buy, c_sell, use_hidden, hidden) ==
    IF buy_rule(htf_up, c_buy)
    THEN [action |-> IF c_buy = 3 THEN "BUY: ALL-IN (3/3, MTF aligned)"
                     ELSE "BUY: Confirmed (MTF aligned)",
          reasons |-> IF use_hidden /\ hidden.hidden_bull
                      THEN <<"Hidden Bullish boost">> ELSE <<>>]
    ELSE IF sell_rule(htf_down, c_sell)
    THEN [action |-> IF c_sell = 3 THEN "SELL: ALL-IN (3/3, MTF aligned)"
                     ELSE "SELL: Confirmed (MTF aligned)",
          reasons |-> IF use_hidden /\ hidden.hidden_bear
                      THEN <<"Hidden Bearish boost">> ELSE <<>>]
    ELSE [action |-> "HOLD/WAIT",
          reasons |-> hold_reasons(htf_up, htf_down, c_buy, c_sell)]

\* The early return of mtf_signal.
short_result(raw) ==
    [price_15m |-> IF len(raw) > 0 THEN Some(raw.Close[len(raw)]) ELSE None,
     action |-> "HOLD/WAIT",
     reasons |-> <<"Not enough bars for calculation">>]

full_result(d15, h, m, hid, dec) ==
    [time |-> d15.ts[len(d15)],
     price_15m |-> Some(d15.Close[len(d15)]),
     BUY_confirms_15m |-> m.confirms_buy,
     SELL_confirms_15m |-> m.confirms_sell,
     action |-> dec.action,
     reasons |-> dec.reasons,
     htf_details |-> h.details,
     mmc_details_15m |-> m.details,
     hidden_div_15m |-> hid]

\* A raw series of consecutive base bars, each a single trade at its close.
RawFrame(closes) ==
    [ts |-> [i \in 1..Len(closes) |-> i - 1],
     Open |-> closes, High |-> closes, Low |-> closes, Close |-> closes,
     Volume |-> [i \in 1..Len(closes) |-> 1]]

Init ==
    /\ pc = "start"
    /\ df_raw \in {RawFrame(c) : c \in SeqsUpTo(Prices, MaxBars)}
    /\ df15 = None /\ df30 = None /\ params = None
    /\ htf = None /\ mmc = None /\ hidden_det = None /\ result = None
    /\ call = None /\ ret = None

\* df15 = resample_ohlc(df_raw, tf_exec); df30 = resample_ohlc(df_raw, tf_filter)
Resample ==
    /\ pc = "start"
    /\ df15' = resample_ohlc(df_raw, TfExec)
    /\ df30' = resample_ohlc(df_raw, TfFilter)
    /\ pc' = "resampled"
    /\ UNCHANGED <<df_raw, params, htf, mmc, hidden_det, result, call, ret>>

InsufficientBars ==
    /\ pc = "resampled"
    /\ len(df15) < MinBarsSignal \/ len(df30) < MinBarsSignal
    /\ result' = short_result(df_raw)
    /\ pc' = "done"
    /\ UNCHANGED <<df_raw, df15, df30, params, htf, mmc, hidden_det, call, ret>>

Indicators ==
    /\ pc = "resampled"
    /\ ~(len(df15) < MinBarsSignal \/ len(df30) < MinBarsSignal)
    /\ \E mp \in MacdParamSet, uh \in BOOLEAN :
          /\ params' = [macd_params |-> mp, use_hidden |-> uh]
          /\ df15' = add_indicators(df15, EmaSpans, mp)
          /\ df30' = add_indicators(df30, EmaSpans, mp)
    /\ pc' = "indicators"
    /\ UNCHANGED <<df_raw, htf, mmc, hidden_det, result, call, ret>>

Signals ==
    /\ pc = "indicators"
    /\ LET h == htf_filter_30m(df30, EmaSpans, params.macd_params, MinBarsHtf)
           m == check_3_confirm(df15, FiboSet, FiboTol, "EMA200")
       IN /\ htf' = [htf_up |-> h.htf_up, htf_down |-> h.htf_down, details |-> h.details]
          /\ df30' = h.df
          /\ mmc' = [confirms_buy |-> m.confirms_buy, confirms_sell |-> m.confirms_sell,
                     details |-> m.details]
          /\ df15' = m.df
          /\ hidden_det' = IF params.use_hidden
                           THEN hidden_divergence(m.df, FALSE, SwingLeft, SwingRight)
                           ELSE [hidden_bull |-> FALSE, hidden_bear |-> FALSE]
    /\ pc' = "signals"
    /\ UNCHANGED <<df_raw, params, result, call, ret>>

Combine ==
    /\ pc = "signals"
    /\ result' = full_result(df15, htf, mmc, hidden_det,
                             decide(htf.htf_up, htf.htf_down, mmc.confirms_buy,
                                    mmc.confirms_sell, params.use_hidden, hidden_det))
    /\ pc' = "done"
    /\ UNCHANGED <<df_raw, df15, df30, params, htf, mmc, hidden_det, call, ret>>

Next == Resample \/ InsufficientBars \/ Indicators \/ Signals \/ Combine

Spec == Init /\ [][Next]_vars

\* ------------------------------------------------- claims on mtf_signal
BuyLabels == {"BUY: Confirmed (MTF aligned)", "BUY: ALL-IN (3/3, MTF aligned)"}
SellLabels == {"SELL: Confirmed (MTF aligned)", "SELL: ALL-IN (3/3, MTF aligned)"}
TooShort == len(df15) < 2 \/ len(df30) < 2
Evaluated == pc = "done" /\ ~TooShort
IndicatorColumns == {"EMA50", "EMA200", "DIF", "DEA", "MACD_HIST"}
BuyFires == htf.htf_up /\ mmc.confirms_buy >= 2
SellFires == htf.htf_down /\ mmc.confirms_sell >= 2

\* C2: with fewer than 2 bars at either timeframe mtf_signal returns HOLD/WAIT
\* with the single insufficient-bars reason, the HTF, MMC and divergence detail
\* maps present and empty, and no indicator column computed.
C2_ShortResult ==
    (pc = "done" /\ TooShort) =>
        /\ result.action = "HOLD/WAIT"
        /\ result.reasons = <<"Not enough bars for calculation">>
        /\ \A k \in {"htf_details", "mmc_details_15m", "hidden_div_15m"} :
              k \in DOMAIN result /\ DOMAIN result[k] = {}
        /\ DOMAIN df15 \cap IndicatorColumns = {}
        /\ DOMAIN df30 \cap IndicatorColumns = {}

\* C3: the action is a BUY label iff htf_up and buy_score >= 2 (the ALL-IN label
\* iff also buy_score = 3); otherwise a SELL label iff htf_down and
\* sell_score >= 2 (ALL-IN iff sell_score = 3); otherwise HOLD/WAIT. No SELL
\* action when the BUY rule's condition holds.
C3_ActionPriority ==
    Evaluated =>
        /\ result.action \in BuyLabels <=> BuyFires
        /\ result.action = "BUY: ALL-IN (3/3, MTF aligned)"
              <=> (BuyFires /\ mmc.confirms_buy = 3)
        /\ result.action \in SellLabels <=> (~BuyFires /\ SellFires)
        /\ result.action = "SELL: ALL-IN (3/3, MTF aligned)"
              <=> (~BuyFires /\ SellFires /\ mmc.confirms_sell = 3)
        /\ result.action = "HOLD/WAIT" <=> (~BuyFires /\ ~SellFires)
        /\ result.BUY_confirms_15m = mmc.confirms_buy
        /\ result.SELL_confirms_15m = mmc.confirms_sell

\* Every label is produced: both ALL-IN labels and both plain ones.
C3_Witness ==
    /\ Evaluated
    /\ result.action = "BUY: ALL-IN (3/3, MTF aligned)"
    /\ mmc.confirms_buy = 3 /\ htf.htf_up

\* C4: when neither rule fires the action is HOLD/WAIT and the reasons are the
\* not-aligned reason iff both HTF flags are false, then the below-threshold
\* reason iff both scores are < 2, and nothing else; a divergence boost is a
\* reason only of the BUY branch (enabled and hidden_bull) or of the SELL
\* branch (enabled and hidden_bear).
C4_HoldReasons ==
    Evaluated =>
        /\ (~BuyFires /\ ~SellFires) =>
              /\ result.action = "HOLD/WAIT"
              /\ result.reasons =
                    (IF ~htf.htf_up /\ ~htf.htf_down
                     THEN <<"30m filter not aligned">> ELSE <<>>)
                    \o (IF mmc.confirms_buy < 2 /\ mmc.confirms_sell < 2
                        THEN <<"15m MMC < 2/3">> ELSE <<>>)
        /\ BuyFires =>
              result.reasons = IF params.use_hidden /\ hidden_det.hidden_bull
                               THEN <<"Hidden Bullish boost">> ELSE <<>>
        /\ (~BuyFires /\ SellFires) =>
              result.reasons = IF params.use_hidden /\ hidden_det.hidden_bear
                               THEN <<"Hidden Bearish boost">> ELSE <<>>

\* HOLD/WAIT with a hidden bullish divergence detected and enabled, and a
\* sell score that alone keeps the threshold reason away.
C4_Witness ==
    /\ Evaluated
    /\ result.action = "HOLD/WAIT"
    /\ params.use_hidden /\ hidden_det.hidden_bull
    /\ mmc.confirms_buy < 2 /\ mmc.confirms_sell >= 2
    /\ result.reasons = <<"30m filter not aligned">>

\* C10: check_3_confirm never reports both trend crosses, nor both momentum
\* crosses; the scores are never both 3 and sum to at most 4; and when both
\* are >= 2 the action follows the HTF flags and the rule order alone.
C10_CrossExclusive ==
    (pc \in {"signals", "done"} /\ ~TooShort) =>
        /\ ~(mmc.details.ms_buy /\ mmc.details.ms_sell)
        /\ ~(mmc.details.macd_buy /\ mmc.details.macd_sell)
        /\ ~(mmc.confirms_buy = 3 /\ mmc.confirms_sell = 3)
        /\ mmc.confirms_buy + mmc.confirms_sell <= 4
        /\ (pc = "done" /\ mmc.confirms_buy >= 2 /\ mmc.confirms_sell >= 2) =>
              /\ result.action \in BuyLabels <=> htf.htf_up
              /\ result.action \in SellLabels <=> (htf.htf_down /\ ~htf.htf_up)
              /\ result.action = "HOLD/WAIT" <=> (~htf.htf_up /\ ~htf.htf_down)

\* Both scores at the threshold, a cross of each direction plus fibo_ok, under
\* a falling higher timeframe: the SELL rule decides.
C10_Witness ==
    /\ Evaluated
    /\ mmc.confirms_buy >= 2 /\ mmc.confirms_sell >= 2
    /\ mmc.details.fibo_ok
    /\ htf.htf_down
    /\ result.action = "SELL: Confirmed (MTF aligned)"

\* ---------------------------------------- find_swings, bars_since_last_pivot
\* find_swings on any high / low series and window, then
\* bars_since_last_pivot at every index against the lists it returned.
HighLow == {0, Scale}

InitSwings ==
    /\ pc = "call"
    /\ \E n \in 0..MaxSwingLen :
         call \in [high : [1..n -> HighLow], low : [1..n -> HighLow],
                   left : 0..MaxWin, right : 0..MaxWin]
    /\ ret = None
    /\ df_raw = None /\ df15 = None /\ df30 = None /\ params = None
    /\ htf = None /\ mmc = None /\ hidden_det = None /\ result = None

CallFindSwings ==
    /\ pc = "call"
    /\ ret' = find_swings(call.high, call.low, call.left, call.right)
    /\ pc' = "swings"
    /\ UNCHANGED <<df_raw, df15, df30, params, htf, mmc, hidden_det, result, call>>

CallBarsSince ==
    /\ pc = "swings"
    /\ ret' = [swing_high |-> ret.swing_high, swing_low |-> ret.swing_low,
               bars |-> [idx \in 0..MaxSwingLen |->
                           bars_since_last_pivot(idx, ret.swing_high, ret.swing_low)]]
    /\ pc' = "bars"
    /\ UNCHANGED <<df_raw, df15, df30, params, htf, mmc, hidden_det, result, call>>

NextSwings == CallFindSwings \/ CallBarsSince

SpecSwings == InitSwings /\ [][NextSwings]_vars

Ascending(s) == \A i \in 1..(Len(s) - 1) : s[i] < s[i + 1]
WindowOf(col, i, left, right) == {col[k + 1] : k \in (i - left)..(i + right)}

\* C6: find_swings returns two ascending lists of indices i with
\* left <= i < n - right; an index is in the swing-high list iff high[i] is
\* the maximum of high[i-left..i+right] (ties included), in the swing-low list
\* iff low[i] is the minimum; both lists are empty when n - right <= left.
C6_Swings ==
    pc \in {"swings", "bars"} =>
        LET n == Len(call.high)
            l == call.left
            r == call.right
            InRange == {i \in 0..(n - 1) : l <= i /\ i < n - r}
        IN /\ Ascending(ret.swing_high) /\ Ascending(ret.swing_low)
           /\ Range(ret.swing_high) \subseteq InRange
           /\ Range(ret.swing_low) \subseteq InRange
           /\ \A i \in InRange :
                 /\ i \in Range(ret.swing_high)
                      <=> call.high[i + 1] = Max(WindowOf(call.high, i, l, r))
                 /\ i \in Range(ret.swing_low)
                      <=> call.low[i + 1] = Min(WindowOf(call.low, i, l, r))
           /\ (n - r <= l) => (ret.swing_high = <<>> /\ ret.swing_low = <<>>)

\* A plateau: two neighbouring swing-highs of equal height, and an index of
\* the range that is no swing-high but the only swing-low.
C6_Witness ==
    /\ pc = "swings"
    /\ call.left = 1 /\ call.right = 1 /\ Len(call.high) = 5
    /\ ret.swing_high = <<1, 2>>
    /\ call.high[2] = call.high[3]
    /\ ret.swing_low = <<3>>

Pivots == Range(ret.swing_high) \cup Range(ret.swing_low)

\* C7: bars_since_last_pivot(idx) is none iff no pivot index is <= idx,
\* otherwise idx minus the largest pivot index <= idx (so >= 0); and between
\* idx1 < idx2 with no pivot in (idx1, idx2] the result does not decrease.
C7_BarsSince ==
    pc = "bars" =>
        /\ \A idx \in DOMAIN ret.bars :
              LET b == ret.bars[idx]
              IN /\ b = None <=> ~(\E p \in Pivots : p <= idx)
                 /\ b # None =>
                       /\ b[1] >= 0
                       /\ idx - b[1] \in Pivots
                       /\ \A p \in Pivots : p <= idx => p <= idx - b[1]
        /\ \A idx1, idx2 \in DOMAIN ret.bars :
              (idx1 < idx2 /\ ~(\E p \in Pivots : idx1 < p /\ p <= idx2)) =>
                  /\ ret.bars[idx1] = None <=> ret.bars[idx2] = None
                  /\ ret.bars[idx1] # None => ret.bars[idx2][1] >= ret.bars[idx1][1]

\* No pivot up to index 1, then pivots at 2 and 4: none, 0, 1, 0, 1.
C7_Witness ==
    /\ pc = "bars"
    /\ Pivots = {2, 4}
    /\ ret.bars[1] = None /\ ret.bars[2] = Some(0) /\ ret.bars[3] = Some(1)
    /\ ret.bars[4] = Some(0) /\ ret.bars[5] = Some(1)

\* --------------------------------------------------------- hidden_divergence
\* hidden_divergence on any frame of up to MaxLen bars, with either
\* oscillator and any window. The histogram is DIF - DEA with DEA = 2 DIF, so
\* the two oscillators order the bars in opposite ways.
DivFrame(high, low, dif) ==
    [High |-> high, Low |-> low, Close |-> low, DIF |-> dif,
     DEA |-> [i \in DOMAIN dif |-> 2 * dif[i]],
     MACD_HIST |-> [i \in DOMAIN dif |-> -dif[i]]]

InitDiv ==
    /\ pc = "call"
    /\ \E n \in 0..MaxLen :
         \E high \in [1..n -> HighLow], low \in [1..n -> HighLow],
            dif \in [1..n -> HighLow] :
            call \in [df : {DivFrame(high, low, dif)}, use_hist : BOOLEAN,
                      left : 0..MaxWin, right : 0..MaxWin]
    /\ ret = None
    /\ df_raw = None /\ df15 = None /\ df30 = None /\ params = None
    /\ htf = None /\ mmc = None /\ hidden_det = None /\ result = None

CallHiddenDivergence ==
    /\ pc = "call"
    /\ ret' = hidden_divergence(call.df, call.use_hist, call.left, call.right)
    /\ pc' = "div"
    /\ UNCHANGED <<df_raw, df15, df30, params, htf, mmc, hidden_det, result, call>>

NextDiv == CallHiddenDivergence

SpecDiv == InitDiv /\ [][NextDiv]_vars

\* Swing indices of a column, from the definition of a pivot.
PivotSet(col, left, right, extremum(_)) ==
    {i \in 0..(Len(col) - 1) :
        /\ left <= i /\ i < Len(col) - right
        /\ col[i + 1] = extremum(WindowOf(col, i, left, right))}

\* C8: hidden_bull iff there are at least 2 swing-lows and the two most recent
\* ones i1 < i2 have low[i2] > low[i1] and osc[i2] < osc[i1]; hidden_bear iff
\* at least 2 swing-highs and high[j2] < high[j1], osc[j2] > osc[j1]; a frame
\* shorter than left+right+1 gives both flags false and both indices none.
C8_HiddenDivergence ==
    pc = "div" =>
        LET df == call.df
            osc == IF call.use_hist THEN df.MACD_HIST ELSE df.DIF
            lows == PivotSet(df.Low, call.left, call.right, Min)
            highs == PivotSet(df.High, call.left, call.right, Max)
        IN /\ ret.hidden_bull <=>
                 /\ Cardinality(lows) >= 2
                 /\ LET i2 == Max(lows)
                        i1 == Max(lows \ {i2})
                    IN df.Low[i2 + 1] > df.Low[i1 + 1] /\ osc[i2 + 1] < osc[i1 + 1]
           /\ ret.hidden_bear <=>
                 /\ Cardinality(highs) >= 2
                 /\ LET j2 == Max(highs)
                        j1 == Max(highs \ {j2})
                    IN df.High[j2 + 1] < df.High[j1 + 1] /\ osc[j2 + 1] > osc[j1 + 1]
           /\ len(df) < call.left + call.right + 1 =>
                 /\ ~ret.hidden_bull /\ ~ret.hidden_bear
                 /\ ret.last_swing_low_idx = None
                 /\ ret.last_swing_high_idx = None

\* A hidden bullish divergence on the histogram between swing-lows 0 and 1,
\* with two swing-highs that show no bearish one.
C8_Witness ==
    /\ pc = "div"
    /\ call.use_hist /\ call.left = 0 /\ call.right = 1
    /\ ret.hidden_bull /\ ~ret.hidden_bear
    /\ ret.last_swing_low_idx = Some(1)
    /\ ret.last_swing_high_idx = Some(1)

\* ----------------------------------------------------------- check_3_confirm
\* check_3_confirm on frames of up to MaxMmcLen single-trade bars whose EMA200
\* column and MACD columns are each absent (computed on demand) or given:
\* EMA200 flat at any price, DIF at any price on the last bar and at any
\* price before it, DEA flat at the middle price.
Flat(n, v) == [i \in 1..n |-> v]
TwoStep(n, a, b) == [i \in 1..n |-> IF i = n THEN b ELSE a]
Bars(closes) == [Close |-> closes, High |-> closes, Low |-> closes]
EmaColumn(n) == {<<>>} \cup {[EMA200 |-> Flat(n, v)] : v \in Prices}
MacdColumns(n) ==
    {<<>>, [DIF |-> Flat(n, 0), DEA |-> Flat(n, Scale)]}
    \cup {[DIF |-> TwoStep(n, a, b), DEA |-> Flat(n, Scale),
           MACD_HIST |-> TwoStep(n, a - Scale, b - Scale)] : a \in Prices, b \in Prices}

InitMMC ==
    /\ pc = "call"
    /\ \E n \in 0..MaxMmcLen :
         \E closes \in [1..n -> Prices], e \in EmaColumn(n), m \in MacdColumns(n) :
            call = [df |-> Bars(closes) @@ e @@ m]
    /\ ret = None
    /\ df_raw = None /\ df15 = None /\ df30 = None /\ params = None
    /\ htf = None /\ mmc = None /\ hidden_det = None /\ result = None

CallCheck3Confirm ==
    /\ pc = "call"
    /\ ret' = check_3_confirm(call.df, FiboSet, FiboTol, "EMA200")
    /\ pc' = "mmc"
    /\ UNCHANGED <<df_raw, df15, df30, params, htf, mmc, hidden_det, result, call>>

NextMMC == CallCheck3Confirm

SpecMMC == InitMMC /\ [][NextMMC]_vars

\* C5: with at least 2 bars buy_score counts the true ones among
\* {trend_cross_buy, momentum_cross_buy, fibo_ok} and sell_score among
\* {trend_cross_sell, momentum_cross_sell, fibo_ok}, both in 0..3, the crosses
\* strict at the last bar and non-strict at the one before, fibo_ok the same
\* on both sides; with fewer than 2 bars the result is (0, 0, empty map).
C5_Scores ==
    pc = "mmc" =>
        IF len(call.df) < 2
        THEN ret.confirms_buy = 0 /\ ret.confirms_sell = 0 /\ DOMAIN ret.details = {}
        ELSE
        LET df == ret.df
            t == len(df)
            p == len(df) - 1
            tcb == df.Close[t] > df.EMA200[t] /\ df.Close[p] <= df.EMA200[p]
            tcs == df.Close[t] < df.EMA200[t] /\ df.Close[p] >= df.EMA200[p]
            mcb == df.DIF[t] > df.DEA[t] /\ df.DIF[p] <= df.DEA[p]
            mcs == df.DIF[t] < df.DEA[t] /\ df.DIF[p] >= df.DEA[p]
            pivots == {i \in PivotSet(df.High, SwingLeft, SwingRight, Max)
                              \cup PivotSet(df.Low, SwingLeft, SwingRight, Min) : i <= t - 1}
            fibo == pivots # {} /\ (t - 1 - Max(pivots)) \in FiboSet
        IN /\ ret.details.ms_buy = tcb /\ ret.details.ms_sell = tcs
           /\ ret.details.macd_buy = mcb /\ ret.details.macd_sell = mcs
           /\ ret.details.fibo_ok = fibo
           /\ ret.confirms_buy = Cardinality({k \in {<<1, tcb>>, <<2, mcb>>, <<3, fibo>>} : k[2]})
           /\ ret.confirms_sell = Cardinality({k \in {<<1, tcs>>, <<2, mcs>>, <<3, fibo>>} : k[2]})
           /\ ret.confirms_buy \in 0..3 /\ ret.confirms_sell \in 0..3

\* Three buy confirmations with both crosses starting from an exact touch at
\* the previous bar, on given columns.
C5_Witness ==
    /\ pc = "mmc"
    /\ ret.confirms_buy = 3 /\ ret.confirms_sell = 1
    /\ "EMA200" \in DOMAIN call.df /\ "DIF" \in DOMAIN call.df
    /\ LET p == len(call.df) - 1
       IN call.df.Close[p] = call.df.EMA200[p] /\ call.df.DIF[p] = call.df.DEA[p]

\* ------------------------------------------------------------ htf_filter_30m
\* htf_filter_30m on frames of up to MaxLen bars with any min_bars_above_below
\* from 1 on; each of EMA50, EMA200 and the MACD columns is absent (computed
\* by the call) or given: flat at any price, the histogram absent or of any
\* sign whatever DIF and DEA are.
Ema50Column(n) == {<<>>} \cup {[EMA50 |-> Flat(n, v)] : v \in Prices}
HtfMacdColumns(n) ==
    {<<>>}
    \cup {[DIF |-> Flat(n, d), DEA |-> Flat(n, Scale)] : d \in Prices}
    \cup {[DIF |-> Flat(n, d), DEA |-> Flat(n, Scale), MACD_HIST |-> Flat(n, h)] :
              d \in Prices, h \in {-Scale, 0, Scale}}

InitHTF ==
    /\ pc = "call"
    /\ \E n \in 0..MaxLen :
         \E closes \in [1..n -> Prices], f \in Ema50Column(n), e \in EmaColumn(n),
            m \in HtfMacdColumns(n), k \in 1..(MaxLen + 1) :
            call = [df |-> [Close |-> closes] @@ f @@ e @@ m, min_bars_above_below |-> k]
    /\ ret = None
    /\ df_raw = None /\ df15 = None /\ df30 = None /\ params = None
    /\ htf = None /\ mmc = None /\ hidden_det = None /\ result = None

CallHtfFilter ==
    /\ pc = "call"
    /\ ret' = htf_filter_30m(call.df, EmaSpans, MacdParams, call.min_bars_above_below)
    /\ pc' = "htf"
    /\ UNCHANGED <<df_raw, df15, df30, params, htf, mmc, hidden_det, result, call>>

NextHTF == CallHtfFilter

SpecHTF == InitHTF /\ [][NextHTF]_vars

\* C1: htf_filter_30m never returns htf_up and htf_down both true, for any
\* frame and any min_bars_above_below >= 1; with fewer bars than that both are
\* false and the detail map is empty.
C1_NeverBoth ==
    pc = "htf" =>
        /\ ~(ret.htf_up /\ ret.htf_down)
        /\ len(call.df) < call.min_bars_above_below =>
              (~ret.htf_up /\ ~ret.htf_down /\ DOMAIN ret.details = {})

\* htf_up on given columns whose momentum points both ways (DIF above DEA, the
\* histogram negative): only trend and alignment keep htf_down false.
C1_Witness ==
    /\ pc = "htf"
    /\ ret.htf_up /\ ~ret.htf_down
    /\ ret.details.momentum_up /\ ret.details.momentum_down
    /\ call.min_bars_above_below = MinBarsHtf

\* ------------------------------------------------------------ add_indicators
\* add_indicators called twice on a frame of up to MaxLen bars on which any
\* subset of the five indicator columns is already there, flat at a value no
\* computation on these prices gives; the parameters of either call are any.
Marker == 3 * Scale
Given(n) == {[c \in cols |-> Flat(n, Marker)] : cols \in SUBSET IndicatorColumns}

InitInd ==
    /\ pc = "call"
    /\ \E n \in 0..MaxLen :
         \E closes \in [1..n -> Prices], g \in Given(n) :
            call = [df |-> [Close |-> closes] @@ g]
    /\ ret = None
    /\ df_raw = None /\ df15 = None /\ df30 = None /\ params = None
    /\ htf = None /\ mmc = None /\ hidden_det = None /\ result = None

CallAddIndicators ==
    /\ pc = "call"
    /\ \E es \in EmaSpanSet, mp \in MacdParamSet :
          ret' = [before |-> call.df, df |-> add_indicators(call.df, es, mp)]
    /\ pc' = "once"
    /\ UNCHANGED <<df_raw, df15, df30, params, htf, mmc, hidden_det, result, call>>

CallAddIndicatorsAgain ==
    /\ pc = "once"
    /\ \E es \in EmaSpanSet, mp \in MacdParamSet :
          ret' = [before |-> ret.df, df |-> add_indicators(ret.df, es, mp)]
    /\ pc' = "twice"
    /\ UNCHANGED <<df_raw, df15, df30, params, htf, mmc, hidden_det, result, call>>

NextInd == CallAddIndicators \/ CallAddIndicatorsAgain

SpecInd == InitInd /\ [][NextInd]_vars

MacdColumnNames == {"DIF", "DEA", "MACD_HIST"}
Kept(c) == c \in DOMAIN ret.before => ret.df[c] = ret.before[c]

====
